---- MODULE Spec2Model ----
(***************************************************************************)
(* Vision-Sync analysis pipeline: POST /api/analyze (routers/analyze.py)   *)
(* driving the CV service, the vector service and the GenAI service.       *)
(*                                                                         *)
(* One worker process serves requests one after the other.  The module    *)
(* globals of the services (_model, _client, _embedder, _configured)      *)
(* persist from one request to the next; everything else is local to the  *)
(* request being served.  The external collaborators (YOLO detector,      *)
(* ChromaDB, sentence-transformer, Gemini backends, Supabase) are the     *)
(* environment: each of their answers is a nondeterministic choice.       *)
(*                                                                         *)
(* Text is modelled as a sequence of one-character strings, so that       *)
(* substring search, case folding, stripping and prefix tests are         *)
(* computed as Python computes them.  Floats are modelled as integers:    *)
(* confidences in units of 1e-4, pixel coordinates in units of 1e-2,      *)
(* scores in whole units.                                                  *)
(***************************************************************************)
EXTENDS Integers, Sequences, FiniteSets, TLC

VARIABLES
    pc,                \* position of the handler analyze_image
    file,              \* the upload being served: content type and bytes
    _model,            \* cv_service._model
    _client,           \* vector_service._client
    _embedder,         \* vector_service._embedder
    _configured,       \* genai_service._configured
    api_key,           \* analyze_image: api_key
    raw,               \* what the detector did in this run
    index,             \* what the vector store and embedder did in this run
    storage,           \* what Supabase and its environment did in this run
    detected_objects,  \* analyze_image: detected_objects
    annotated_b64,     \* analyze_image: annotated_b64
    recommendations,   \* analyze_image: recommendations
    analysis,          \* analyze_image: analysis
    image_url,         \* analyze_image: image_url
    response,          \* what the handler returned or raised
    attempts,          \* generate_analysis: one entry per backend attempt
    calls,             \* collaborator calls made in this run, in order
    call,              \* a function of the services called on its own: name and arguments
    ret,               \* what that call returned
    runs               \* concurrent runs of analyze_image in one process: their locals

vars == <<pc, file, _model, _client, _embedder, _configured, api_key,
          raw, index, storage, detected_objects, annotated_b64, recommendations, analysis,
          image_url, response, attempts, calls, call, ret, runs>>

None == "None"

\* No function is called on its own, and no concurrent runs are under way
NoCall == [fn |-> "none", args |-> <<>>]
NoRet  == [done |-> FALSE, value |-> <<>>]
NoRuns == <<>>
Aside  == <<call, ret, runs>>

----------------------------------------------------------------------------
(* Text helpers: str as a sequence of characters.                          *)

UpperChars == <<"A","B","C","D","E","F","G","H","I","J","K","L","M",
                "N","O","P","Q","R","S","T","U","V","W","X","Y","Z">>
LowerChars == <<"a","b","c","d","e","f","g","h","i","j","k","l","m",
                "n","o","p","q","r","s","t","u","v","w","x","y","z">>

\* str.lower() on one character
LowerChar(c) ==
    IF \E k \in 1..Len(UpperChars) : UpperChars[k] = c
    THEN LowerChars[CHOOSE k \in 1..Len(UpperChars) : UpperChars[k] = c]
    ELSE c

\* str.lower()
Lower(s) == [k \in 1..Len(s) |-> LowerChar(s[k])]

\* s.startswith(p)
StartsWith(s, p) == Len(s) >= Len(p) /\ SubSeq(s, 1, Len(p)) = p

\* s.endswith(p)
EndsWith(s, p) == Len(s) >= Len(p) /\ SubSeq(s, Len(s) - Len(p) + 1, Len(s)) = p

\* sub in s
Contains(s, sub) ==
    \E k \in 1..(Len(s) - Len(sub) + 1) : SubSeq(s, k, k + Len(sub) - 1) = sub

\* the characters str.strip() removes, among those the model's texts use
IsSpace(c) == c \in {" ", "\n"}

RECURSIVE LStrip(_)
LStrip(s) == IF s # <<>> /\ IsSpace(Head(s)) THEN LStrip(Tail(s)) ELSE s

RECURSIVE RStrip(_)
RStrip(s) ==
    IF s # <<>> /\ IsSpace(s[Len(s)]) THEN RStrip(SubSeq(s, 1, Len(s) - 1)) ELSE s

\* str.strip()
Strip(s) == LStrip(RStrip(s))

\* decimal digits of a natural number, as str(n) prints them
DigitChars == <<"0","1","2","3","4","5","6","7","8","9">>
RECURSIVE Digits(_)
Digits(n) ==
    IF n < 10 THEN <<DigitChars[n + 1]>>
    ELSE Digits(n \div 10) \o <<DigitChars[(n % 10) + 1]>>

\* round(x, ndigits) for x >= 0 held as an integer number of units of which
\* `unit` make one step of the rounded value; ties go to the even step
Round(x, unit) ==
    LET q == x \div unit
        r == x % unit
    IN  IF 2 * r < unit THEN q * unit
        ELSE IF 2 * r > unit THEN (q + 1) * unit
        ELSE IF q % 2 = 0 THEN q * unit ELSE (q + 1) * unit

----------------------------------------------------------------------------
(* services/cv_service.py                                                  *)

RELEVANT_LABELS ==
    {"chair", "couch", "bed", "dining table", "tv", "laptop",
     "refrigerator", "oven", "microwave", "sink", "toilet",
     "potted plant", "clock", "vase", "book", "bottle"}

MAX_IMAGE_SIZE == 10485760

\* Longest list of boxes the detector answers with in the model
MaxDet == 3

\* The boxes the detector may emit: label, confidence (1e-4), xyxy (1e-2).
\* "person" is a COCO label outside RELEVANT_LABELS.
SampleBoxes ==
    { [label |-> "couch",        conf |-> 9123, xyxy |-> <<1004, 1015, 20025, 20000>>],
      [label |-> "potted plant", conf |-> 8745, xyxy |-> <<22035, 1000, 40000, 15099>>],
      [label |-> "person",       conf |-> 9999, xyxy |-> <<500, 500, 9995, 30050>>] }

BoxSeqs == UNION { [1..n -> SampleBoxes] : n \in 0..MaxDet }

\* A result of the detector: its boxes, or boxes = None (no_boxes)
Result(bs) == [no_boxes |-> FALSE, boxes |-> bs]
NoBoxes == [no_boxes |-> TRUE, boxes |-> <<>>]

\* What model(img) may return: a list of results
DetectorResults ==
    { <<Result(bs)>> : bs \in BoxSeqs }
    \cup { <<NoBoxes>> }
    \cup { <<NoBoxes, Result(bs)>> : bs \in [1..1 -> SampleBoxes] }

\* DetectedObject(label=..., confidence=round(confidence, 3),
\*                bbox=[round(v, 1) for v in xyxy])
DetectedObject(box) ==
    [label      |-> box.label,
     confidence |-> Round(box.conf, 10),
     bbox       |-> [k \in 1..4 |-> Round(box.xyxy[k], 10)]]

\* The rectangle and the caption f"{label} {confidence:.0%}" drawn for a box
Drawn(box) ==
    [rect    |-> [k \in 1..4 |-> box.xyxy[k] \div 100],
     caption |-> <<box.label, Round(box.conf, 100) \div 100>>]

\* Relevant with the allow-list test left out
Relevant_Any(label) == TRUE

\* `if label not in RELEVANT_LABELS: continue`
Relevant(label) == label \in RELEVANT_LABELS

\* the inner loop `for box in boxes` of analyze_image: what it appends
RECURSIVE KeptBoxes(_)
KeptBoxes(boxes) ==
    IF boxes = <<>> THEN <<>>
    ELSE IF Relevant(Head(boxes).label)
         THEN <<Head(boxes)>> \o KeptBoxes(Tail(boxes))
         ELSE KeptBoxes(Tail(boxes))

\* the outer loop `for result in results`, skipping a result without boxes
RECURSIVE KeptOfResults(_)
KeptOfResults(results) ==
    IF results = <<>> THEN <<>>
    ELSE IF Head(results).no_boxes
         THEN KeptOfResults(Tail(results))
         ELSE KeptBoxes(Head(results).boxes) \o KeptOfResults(Tail(results))

\* CvAnalyzeImage answering no detections where the detector raised
CvAnalyzeImage_SwallowsDetectorError(image_bytes, det) ==
    IF image_bytes.size > MAX_IMAGE_SIZE THEN [kind |-> "ValueError"]
    ELSE IF ~image_bytes.decodable THEN [kind |-> "ValueError"]
    ELSE LET kept == KeptOfResults(det.results)
         IN  [kind             |-> "ok",
              detected_objects |-> [k \in 1..Len(kept) |-> DetectedObject(kept[k])],
              annotated_b64    |-> [k \in 1..Len(kept) |-> Drawn(kept[k])]]

\* cv_service.analyze_image(image_bytes, model_path) with the detector's
\* answer `det`: the value returned, or the exception raised
CvAnalyzeImage(image_bytes, det) ==
    IF image_bytes.size > MAX_IMAGE_SIZE THEN [kind |-> "ValueError"]
    ELSE IF ~image_bytes.decodable THEN [kind |-> "ValueError"]
    ELSE IF det.kind # "results" THEN [kind |-> "Exception"]
    ELSE LET kept == KeptOfResults(det.results)
         IN  [kind             |-> "ok",
              detected_objects |-> [k \in 1..Len(kept) |-> DetectedObject(kept[k])],
              annotated_b64    |-> [k \in 1..Len(kept) |-> Drawn(kept[k])]]

\* The detector's possible answers: YOLO(model_path) raising while the model
\* is not loaded yet, model(img) raising, or a list of results
DetectorAnswers(loaded) ==
    { [kind |-> "results", results |-> rs] : rs \in DetectorResults }
    \cup { [kind |-> "infer_error", results |-> <<>>] }
    \cup (IF loaded THEN {} ELSE { [kind |-> "load_error", results |-> <<>>] })

\* The detector was not asked
NoDetector == [kind |-> "not_called", results |-> <<>>]

----------------------------------------------------------------------------
(* services/vector_service.py                                              *)

\* default of the parameter n_results of query_recommendations
N_RESULTS == 5

\* Largest number of products the index holds in the model
MaxIndex == 6

\* The k-th nearest product of the index for the query at hand: ids,
\* documents and metadata as seed_vector_db.py upserts them, and the cosine
\* distance (1e-4) the index reports, ascending in k
ProductNames ==
    <<"Modern Velvet Sofa", "Scandinavian Fabric Couch", "Bohemian Floor Rug",
      "Industrial Arc Floor Lamp", "Mid-Century Coffee Table", "Smart 55 OLED TV",
      "Floating Wall Shelf Set", "Accent Armchair">>

Product(k) ==
    [id       |-> <<"prod", k>>,
     document |-> <<"description", k>>,
     metadata |-> [name |-> ProductNames[k], category |-> "sofa",
                   style |-> "modern", room_type |-> "living room"],
     distance |-> k * 1855]

\* collection.query(n_results=n) on an index of `count` products:
\* the n nearest, in ascending distance
IndexQuery(count, n) == [k \in 1..n |-> Product(k)]

Min(a, b) == IF a <= b THEN a ELSE b
Max(a, b) == IF a >= b THEN a ELSE b

\* VectorMatch with the similarity left unclamped: 1.0 - distance
VectorMatch_Unclamped(hit) ==
    [id               |-> hit.id,
     name             |-> hit.metadata.name,
     description      |-> hit.document,
     category         |-> hit.metadata.category,
     style            |-> hit.metadata.style,
     room_type        |-> hit.metadata.room_type,
     similarity_score |-> Round(10000 - hit.distance, 10)]

\* similarity = max(0.0, 1.0 - distance); VectorMatch(..., round(similarity, 3))
VectorMatch(hit) ==
    [id               |-> hit.id,
     name             |-> hit.metadata.name,
     description      |-> hit.document,
     category         |-> hit.metadata.category,
     style            |-> hit.metadata.style,
     room_type        |-> hit.metadata.room_type,
     similarity_score |-> Round(Max(0, 10000 - hit.distance), 10)]

\* What the vector store and the embedder may do during one query: the
\* number of products indexed and the call that raises, if any
IndexFailures(client, embedder) ==
    {"none", "get_or_create_collection", "count", "encode", "query"}
    \cup (IF client = None THEN {"PersistentClient"} ELSE {})
    \cup (IF embedder = None THEN {"SentenceTransformer"} ELSE {})

IndexSizes == {0, 1, MaxIndex}

\* The vector store was not asked
NoIndex == [count |-> 0, fail |-> "not_called"]

IndexAnswers(client, embedder) ==
    { [count |-> c, fail |-> f] :
        c \in IndexSizes, f \in IndexFailures(client, embedder) }

\* The calls query_recommendations makes on an index that never raises
VectorCallPlan(count, client, embedder) ==
    (IF client = None THEN <<"PersistentClient">> ELSE <<>>)
    \o <<"get_or_create_collection", "count">>
    \o (IF count = 0 THEN <<>>
        ELSE (IF embedder = None THEN <<"SentenceTransformer">> ELSE <<>>)
             \o <<"encode", "count", "query">>)

\* Position of the first call of `plan` named f, or 0
FirstCall(plan, f) ==
    IF \E k \in 1..Len(plan) : plan[k] = f
    THEN CHOOSE k \in 1..Len(plan) :
            plan[k] = f /\ \A j \in 1..(k - 1) : plan[j] # f
    ELSE 0

\* Lines 64-102 of query_recommendations: the part after the test of
\* `labels`, with the index's answer `ix`
QueryIndex(labels, n_results, ix, client, embedder) ==
    LET plan   == VectorCallPlan(ix.count, client, embedder)
        at     == FirstCall(plan, ix.fail)
        made   == IF at = 0 THEN plan ELSE SubSeq(plan, 1, at)
        did(f) == \E k \in 1..Len(made) : made[k] = f /\ (at = 0 \/ k < at)
        hits   == IndexQuery(ix.count, Min(n_results, ix.count))
    IN  [kind     |-> IF at = 0 THEN "ok" ELSE "raise",
         matches  |-> IF at = 0 /\ ix.count > 0
                      THEN [k \in 1..Len(hits) |-> VectorMatch(hits[k])]
                      ELSE <<>>,
         calls    |-> made,
         client   |-> IF did("PersistentClient") THEN "loaded" ELSE client,
         embedder |-> IF did("SentenceTransformer") THEN "loaded" ELSE embedder]

\* query_recommendations without the test of `labels`
QueryRecommendationsN_NoShortCircuit(labels, n_results, ix, client, embedder) ==
    QueryIndex(labels, n_results, ix, client, embedder)

\* query_recommendations(labels, chroma_path, n_results): the matches
\* returned or the exception raised, the calls made, and the globals it
\* leaves behind
QueryRecommendationsN(labels, n_results, ix, client, embedder) ==
    IF labels = {} THEN
        [kind |-> "ok", matches |-> <<>>, calls |-> <<>>,
         client |-> client, embedder |-> embedder]
    ELSE QueryIndex(labels, n_results, ix, client, embedder)

\* query_recommendations(labels, chroma_path), as the handler calls it:
\* n_results takes its default
QueryRecommendations(labels, ix, client, embedder) ==
    QueryRecommendationsN(labels, N_RESULTS, ix, client, embedder)

----------------------------------------------------------------------------
(* models/schemas.py: GeminiAnalysis and ImprovementSuggestion             *)

\* JSON values as json.loads returns them, tagged with their Python type.
\* A "numstr" is a str holding the decimal text of the number v.
JStr(s)    == [t |-> "str",    v |-> s]
JNum(n)    == [t |-> "num",    v |-> n]
JNumStr(n) == [t |-> "numstr", v |-> n]
JList(xs)  == [t |-> "list",   v |-> xs]
JDict(d)   == [t |-> "dict",   v |-> d]

\* The characters of the strings that the model's responses put where a
\* validation error quotes its input
Chars(s) ==
    CASE s = "urgent" -> <<"u","r","g","e","n","t">>
      [] s = "HIGH"   -> <<"H","I","G","H">>
      [] OTHER        -> <<s>>

\* repr() of an input value inside a pydantic error line
RECURSIVE Repr(_)
Repr(x) ==
    CASE x.t = "num"    -> Digits(x.v)
      [] x.t = "numstr" -> <<"'">> \o Digits(x.v) \o <<"'">>
      [] x.t = "str"    -> <<"'">> \o Chars(x.v) \o <<"'">>
      [] x.t = "list"   -> <<"[", "]">>
      [] OTHER          -> <<"{", "}">>

\* One line of str(ValidationError): the field, and the input it rejects
ErrorLine(field, x) == <<field, " input_value=">> \o Repr(x) \o <<"\n">>

SCORE_GE == 1
SCORE_LE == 10

\* PriorityPattern matching any string
PriorityPattern_Any(s) == TRUE

\* priority: str = Field(..., pattern="^(high|medium|low)$")
PriorityPattern(s) == s \in {"high", "medium", "low"}

\* str field: pydantic takes a str and nothing else
StrErrors(field, x) == IF x.t = "str" THEN <<>> ELSE ErrorLine(field, x)

\* ScoreErrors with the upper bound left out
ScoreErrors_NoUpperBound(x) ==
    IF x.t \in {"num", "numstr"} /\ x.v >= SCORE_GE
    THEN <<>>
    ELSE ErrorLine("estimated_improvement_score", x)

\* float field with ge/le: a number, or a str that reads as one, in range
ScoreErrors(x) ==
    IF x.t \in {"num", "numstr"} /\ x.v >= SCORE_GE /\ x.v <= SCORE_LE
    THEN <<>>
    ELSE ErrorLine("estimated_improvement_score", x)

\* list[str] field
RECURSIVE StrItemsErrors(_, _)
StrItemsErrors(field, xs) ==
    IF xs = <<>> THEN <<>>
    ELSE StrErrors(field, Head(xs)) \o StrItemsErrors(field, Tail(xs))

StrListErrors(field, x) ==
    IF x.t = "list" THEN StrItemsErrors(field, x.v) ELSE ErrorLine(field, x)

\* ImprovementSuggestion(**d): area, suggestion and priority are required
SuggestionErrors(x) ==
    IF x.t # "dict" THEN ErrorLine("improvement_suggestions", x)
    ELSE LET d == x.v
             req(f) == IF f \in DOMAIN d THEN StrErrors(f, d[f])
                       ELSE <<f, " missing\n">>
         IN  req("area") \o req("suggestion") \o
             (IF "priority" \notin DOMAIN d THEN <<"priority", " missing\n">>
              ELSE IF d.priority.t # "str" THEN ErrorLine("priority", d.priority)
              ELSE IF ~PriorityPattern(d.priority.v)
                   THEN ErrorLine("priority", d.priority)
              ELSE <<>>)

RECURSIVE SuggestionItemsErrors(_)
SuggestionItemsErrors(xs) ==
    IF xs = <<>> THEN <<>>
    ELSE SuggestionErrors(Head(xs)) \o SuggestionItemsErrors(Tail(xs))

SuggestionListErrors(x) ==
    IF x.t = "list" THEN SuggestionItemsErrors(x.v)
    ELSE ErrorLine("improvement_suggestions", x)

\* The validation errors of GeminiAnalysis(**data), in field order; a key
\* that is absent takes the field's default and a key that is no field is
\* ignored
ValidationErrors(data) ==
    LET opt(f, errs(_)) == IF f \in DOMAIN data THEN errs(data[f]) ELSE <<>>
        str(f)  == opt(f, LAMBDA x : StrErrors(f, x))
        strs(f) == opt(f, LAMBDA x : StrListErrors(f, x))
    IN  str("room_type") \o str("room_summary") \o str("style_detected")
        \o opt("improvement_suggestions", SuggestionListErrors)
        \o strs("color_palette_recommendation")
        \o opt("estimated_improvement_score", ScoreErrors)
        \o strs("furniture_to_add") \o strs("furniture_to_remove")

\* The GeminiAnalysis that GeminiAnalysis(**data) builds from valid data:
\* defaults filled in, tags dropped, a numeric str read as its number
GeminiAnalysis(data) ==
    LET get(f, default) == IF f \in DOMAIN data THEN data[f].v ELSE default
        untag(xs) == [k \in 1..Len(xs) |-> xs[k].v]
        sugg(xs)  == [k \in 1..Len(xs) |->
                        [area       |-> xs[k].v.area.v,
                         suggestion |-> xs[k].v.suggestion.v,
                         priority   |-> xs[k].v.priority.v]]
    IN  [room_type     |-> get("room_type", "unknown"),
         room_summary  |-> <<get("room_summary", "")>>,
         style_detected |-> get("style_detected", "unknown"),
         improvement_suggestions |-> sugg(get("improvement_suggestions", <<>>)),
         color_palette_recommendation |->
             untag(get("color_palette_recommendation", <<>>)),
         estimated_improvement_score |-> get("estimated_improvement_score", 5),
         furniture_to_add    |-> untag(get("furniture_to_add", <<>>)),
         furniture_to_remove |-> untag(get("furniture_to_remove", <<>>))]

----------------------------------------------------------------------------
(* services/genai_service.py                                               *)

_MODEL_CHAIN ==
    <<"gemini-2.0-flash", "gemini-2.0-flash-lite",
      "gemini-2.5-flash", "gemini-1.5-flash">>

\* _infer_room_type with the sink rule tried before the toilet rule
_infer_room_type_SinkBeforeToilet(objects) ==
    LET obj_set == { objects[k] : k \in 1..Len(objects) }
    IN  IF obj_set \cap {"bed"} # {} THEN "bedroom"
        ELSE IF obj_set \cap {"sink"} # {} THEN "kitchen"
        ELSE IF obj_set \cap {"toilet"} # {} THEN "bathroom"
        ELSE IF obj_set \cap {"refrigerator", "oven", "microwave"} # {} THEN "kitchen"
        ELSE IF obj_set \cap {"couch", "tv"} # {} THEN "living room"
        ELSE IF obj_set \cap {"dining table"} # {} THEN "dining room"
        ELSE IF obj_set \cap {"laptop", "chair"} # {} THEN "office"
        ELSE "living room"

\* _infer_room_type(objects)
_infer_room_type(objects) ==
    LET obj_set == { objects[k] : k \in 1..Len(objects) }
    IN  IF obj_set \cap {"bed"} # {} THEN "bedroom"
        ELSE IF obj_set \cap {"toilet"} # {} THEN "bathroom"
        ELSE IF obj_set \cap {"refrigerator", "oven", "microwave"} # {} THEN "kitchen"
        ELSE IF obj_set \cap {"sink"} # {} /\ ~(obj_set \cap {"toilet"} # {}) THEN "kitchen"
        ELSE IF obj_set \cap {"couch", "tv"} # {} THEN "living room"
        ELSE IF obj_set \cap {"dining table"} # {} THEN "dining room"
        ELSE IF obj_set \cap {"laptop", "chair"} # {} THEN "office"
        ELSE "living room"

\* [o.label for o in detected_objects]
LabelsOf(objs) == [k \in 1..Len(objs) |-> objs[k].label]

\* _fallback_analysis with `recommendations` in place of `recommendations[:3]`
_fallback_analysis_AllRecommendations(objs, recs, room_type) ==
    LET labels        == [k \in 1..Len(objs) |-> objs[k].label]
        unique_labels == { labels[k] : k \in 1..Len(labels) }
        general  == IF Cardinality(unique_labels) < 3
                    THEN <<[area |-> "General", suggestion |-> "add furniture",
                            priority |-> "medium"]>>
                    ELSE <<>>
        greenery == IF "potted plant" \notin unique_labels
                    THEN <<[area |-> "Greenery", suggestion |-> "add plants",
                            priority |-> "low"]>>
                    ELSE <<>>
    IN  [room_type      |-> room_type,
         room_summary   |-> <<room_type, unique_labels>>,
         style_detected |-> "undetermined",
         improvement_suggestions      |-> general \o greenery,
         color_palette_recommendation |-> <<"#3b82f6", "#1e293b", "#f8fafc">>,
         estimated_improvement_score  |-> 5,
         furniture_to_add    |-> [k \in 1..Len(recs) |-> recs[k].name],
         furniture_to_remove |-> <<>>]

\* _fallback_analysis(detected_objects, recommendations, room_type).
\* room_summary is held as the room type and the set of labels it names:
\* the order in which list(set(labels)) joins them is not modelled.
_fallback_analysis(objs, recs, room_type) ==
    LET labels        == LabelsOf(objs)
        unique_labels == { labels[k] : k \in 1..Len(labels) }
        general  == IF Cardinality(unique_labels) < 3
                    THEN <<[area |-> "General", suggestion |-> "add furniture",
                            priority |-> "medium"]>>
                    ELSE <<>>
        greenery == IF "potted plant" \notin unique_labels
                    THEN <<[area |-> "Greenery", suggestion |-> "add plants",
                            priority |-> "low"]>>
                    ELSE <<>>
        top      == SubSeq(recs, 1, Min(3, Len(recs)))
    IN  [room_type      |-> room_type,
         room_summary   |-> <<room_type, unique_labels>>,
         style_detected |-> "undetermined",
         improvement_suggestions      |-> general \o greenery,
         color_palette_recommendation |-> <<"#3b82f6", "#1e293b", "#f8fafc">>,
         estimated_improvement_score  |-> 5,
         furniture_to_add    |-> [k \in 1..Len(top) |-> top[k].name],
         furniture_to_remove |-> <<>>]

\* The JSON objects the backends answer with in the model, by the name that
\* stands for the object's members inside a response text
Suggestion(p) ==
    JDict([area |-> JStr("seating"), suggestion |-> JStr("add a rug"), priority |-> p])

Body(b) ==
    CASE b = "ok7" ->
           [room_type      |-> JStr("living room"),
            room_summary   |-> JStr("a tidy room"),
            style_detected |-> JStr("modern"),
            improvement_suggestions |->
                JList(<<Suggestion(JStr("high")), Suggestion(JStr("low"))>>),
            color_palette_recommendation |-> JList(<<JStr("#ffffff")>>),
            estimated_improvement_score  |-> JNum(7),
            furniture_to_add    |-> JList(<<JStr("lamp")>>),
            furniture_to_remove |-> JList(<<>>),
            confidence          |-> JStr("extra key")]
      [] b = "ok1" ->
           [style_detected |-> JStr("sparse"),
            improvement_suggestions |-> JList(<<Suggestion(JStr("medium"))>>),
            estimated_improvement_score |-> JNum(1)]
      [] b = "ok10str" ->
           [estimated_improvement_score |-> JNumStr(10)]
      [] b = "score0" ->
           [style_detected |-> JStr("modern"),
            estimated_improvement_score |-> JNum(0)]
      [] b = "score11" ->
           [style_detected |-> JStr("modern"),
            estimated_improvement_score |-> JNum(11)]
      [] b = "score429" ->
           [style_detected |-> JStr("modern"),
            estimated_improvement_score |-> JNum(429)]
      [] b = "urgent" ->
           [style_detected |-> JStr("modern"),
            improvement_suggestions |->
                JList(<<Suggestion(JStr("high")), Suggestion(JStr("urgent"))>>),
            estimated_improvement_score |-> JNum(7)]
      [] b = "HIGH" ->
           [improvement_suggestions |-> JList(<<Suggestion(JStr("HIGH"))>>)]
      [] b = "typed" ->
           [room_type |-> JNum(3),
            improvement_suggestions |-> JDict([area |-> JStr("seating")])]

BodyNames ==
    {"ok7", "ok1", "ok10str", "score0", "score11", "score429", "urgent",
     "HIGH", "typed"}

\* json.loads(text) on the model's texts: "{" members "}" is an object,
\* "[" "]" the empty list, white space between tokens is skipped, and
\* anything else raises JSONDecodeError
JsonLoads(text) ==
    LET toks == SelectSeq(text, LAMBDA c : ~IsSpace(c))
    IN  IF Len(toks) = 3 /\ toks[1] = "{" /\ toks[3] = "}" /\ toks[2] \in BodyNames
        THEN [ok |-> TRUE, value |-> JDict(Body(toks[2])), msg |-> <<>>]
        ELSE IF toks = <<"[", "]">>
        THEN [ok |-> TRUE, value |-> JList(<<>>), msg |-> <<>>]
        ELSE [ok |-> FALSE, value |-> JList(<<>>),
              msg |-> <<"E","x","p","e","c","t","i","n","g"," ",
                        "v","a","l","u","e"," ","c","h","a","r"," ","0">>]

\* the code-fence marker: three backquote characters
Backquote == "backquote"
Fence == <<Backquote, Backquote, Backquote>>
JsonTag == <<"j", "s", "o", "n">>

\* text.split("\n", 1)[1]
AfterFirstNewline(s) ==
    LET k == CHOOSE k \in 1..Len(s) :
                s[k] = "\n" /\ \A j \in 1..(k - 1) : s[j] # "\n"
    IN  SubSeq(s, k + 1, Len(s))

\* The text _parse_gemini_response hands to json.loads
RepairedText(text) ==
    LET t1 == Strip(text)
        t2 == IF StartsWith(t1, Fence)
              THEN IF Contains(t1, <<"\n">>) THEN AfterFirstNewline(t1)
                   ELSE SubSeq(t1, 4, Len(t1))
              ELSE t1
        t3 == IF EndsWith(t2, Fence) THEN Strip(SubSeq(t2, 1, Len(t2) - 3)) ELSE t2
        t4 == IF StartsWith(t3, JsonTag) THEN Strip(SubSeq(t3, 5, Len(t3))) ELSE t3
    IN  t4

\* _parse_gemini_response(text)
_parse_gemini_response(text) == JsonLoads(RepairedText(text))

\* IsQuotaError looking for the status code only
IsQuotaError_StatusOnly(error_str) ==
    Contains(error_str, <<"4", "2", "9">>)

\* IsQuotaError with the case folding left out
IsQuotaError_CaseSensitive(error_str) ==
    \/ Contains(error_str, <<"4", "2", "9">>)
    \/ Contains(error_str, <<"q", "u", "o", "t", "a">>)

\* `"429" in error_str or "quota" in error_str.lower()`
IsQuotaError(error_str) ==
    \/ Contains(error_str, <<"4", "2", "9">>)
    \/ Contains(Lower(error_str), <<"q", "u", "o", "t", "a">>)

\* AfterException with `continue` on every exception
AfterException_AlwaysContinue(i, error_str) ==
    IF i < Len(_MODEL_CHAIN) THEN "next" ELSE "fallback"

\* The except clause of the loop over _MODEL_CHAIN, at 1-based position i:
\* "continue" goes to the next backend, or leaves the loop after the last;
\* "break" leaves the loop
AfterException(i, error_str) ==
    IF IsQuotaError(error_str)
    THEN IF i < Len(_MODEL_CHAIN) THEN "next" ELSE "fallback"
    ELSE "fallback"

NoAnalysis == [kind |-> "none"]

\* HasKey with the check of the key left out
HasKey_Unchecked(key) == TRUE

\* `if not api_key` is false: a credential is configured
HasKey(key) == key # ""

\* The body of the try block for one backend, given what the backend did
\* (`out`): the analysis returned, or the message of the exception raised
TryModel(out) ==
    IF out.kind = "raise" THEN [kind |-> "except", msg |-> out.msg, analysis |-> NoAnalysis]
    ELSE
        LET parsed == _parse_gemini_response(out.text)
        IN  IF ~parsed.ok
            THEN [kind |-> "except", msg |-> parsed.msg, analysis |-> NoAnalysis]
            ELSE IF parsed.value.t # "dict"
            THEN [kind |-> "except", analysis |-> NoAnalysis,
                  msg |-> <<"m","u","s","t"," ","b","e"," ","a"," ",
                            "m","a","p","p","i","n","g">>]
            ELSE IF ValidationErrors(parsed.value.v) # <<>>
            THEN [kind |-> "except", analysis |-> NoAnalysis,
                  msg |-> <<"validation error for GeminiAnalysis\n">>
                          \o ValidationErrors(parsed.value.v)]
            ELSE [kind |-> "return", msg |-> <<>>,
                  analysis |-> GeminiAnalysis(parsed.value.v)]

\* Messages of the exceptions a backend raises: the two forms of a quota or
\* rate-limit error, and an error of another kind
Err429   == <<"4","2","9"," ","R","e","s","o","u","r","c","e">>
ErrQuota == <<"Q","u","o","t","a"," ","e","x","c","e","e","d","e","d">>
Err500   == <<"5","0","0"," ","I","n","t","e","r","n","a","l">>

\* What a generative backend may do when asked: raise, or answer with text
BackendErrors == {Err429, ErrQuota, Err500}

Plain(b) == <<"{", "\n", b, "}">>
Fenced(b) == Fence \o JsonTag \o <<"\n">> \o Plain(b) \o <<"\n">> \o Fence \o <<"\n">>

ResponseTexts ==
    { Fenced("ok7"), Plain("ok1"), Plain("ok10str"), Plain("score0"),
      Plain("score11"), Plain("score429"), Plain("urgent"), Plain("HIGH"),
      Plain("typed"), <<"[", "]">>, <<"S","u","r","e","!">> }

Raises(m)  == [kind |-> "raise", msg |-> m, text |-> <<>>]
Answers(t) == [kind |-> "text", msg |-> <<>>, text |-> t]

BackendOutcomes ==
    { Raises(m) : m \in BackendErrors } \cup { Answers(t) : t \in ResponseTexts }

\* The backend behaviours that the model of the whole pipeline draws from:
\* a quota error, another error, a valid answer and an invalid one
PipelineOutcomes ==
    { Raises(Err429),
      Raises(Err500),
      Answers(Fenced("ok7")),
      Answers(Plain("score11")) }

----------------------------------------------------------------------------
(* routers/analyze.py: the handler analyze_image                           *)

NoResponse == [status |-> 0]

\* raise HTTPException(status_code=code, ...)
HTTPException(code) == [status |-> code]

\* AnalysisResponse(detected_objects=..., ..., image_url=...)
AnalysisResponse(objs, recs, an, b64, url) ==
    [status                 |-> 200,
     detected_objects       |-> objs,
     vector_recommendations |-> recs,
     analysis               |-> an,
     annotated_image        |-> b64,
     image_url              |-> url]

ImagePng  == <<"i","m","a","g","e","/","p","n","g">>
TextPlain == <<"t","e","x","t","/","p","l","a","i","n">>

\* The uploads the model serves: content type (<<>> when the part has
\* none), and the bytes read from it: how many, and whether they decode
Files ==
    { [content_type |-> ct, size |-> n, decodable |-> d] :
        ct \in {<<>>, ImagePng, TextPlain},
        n \in {MAX_IMAGE_SIZE, MAX_IMAGE_SIZE + 1},
        d \in BOOLEAN }

ApiKeys == {"", "key"}

\* Supabase was not asked
NoStorage == [env |-> FALSE, fail |-> "not_called"]

Init ==
    /\ pc = "idle"
    /\ file = [content_type |-> <<>>, size |-> MAX_IMAGE_SIZE, decodable |-> FALSE]
    /\ _model = None
    /\ _client = None
    /\ _embedder = None
    /\ _configured = FALSE
    /\ api_key = ""
    /\ raw = NoDetector
    /\ index = NoIndex
    /\ storage = NoStorage
    /\ detected_objects = <<>>
    /\ annotated_b64 = <<>>
    /\ recommendations = <<>>
    /\ analysis = NoAnalysis
    /\ image_url = None
    /\ response = NoResponse
    /\ attempts = <<>>
    /\ calls = <<>>
    /\ call = NoCall
    /\ ret = NoRet
    /\ runs = NoRuns

Globals == <<_model, _client, _embedder, _configured>>

\* A request arrives; the handler checks the content type (lines 41-42)
Receive ==
    /\ pc \in {"idle", "done"}
    /\ UNCHANGED Aside
    /\ \E f \in Files :
        /\ file' = f
        /\ IF f.content_type = <<>> \/ ~StartsWith(f.content_type, <<"i","m","a","g","e","/">>)
           THEN pc' = "done" /\ response' = HTTPException(400)
           ELSE pc' = "read" /\ response' = NoResponse
    /\ api_key' = ""
    /\ raw' = NoDetector
    /\ index' = NoIndex
    /\ storage' = NoStorage
    /\ detected_objects' = <<>>
    /\ annotated_b64' = <<>>
    /\ recommendations' = <<>>
    /\ analysis' = NoAnalysis
    /\ image_url' = None
    /\ attempts' = <<>>
    /\ calls' = <<>>
    /\ UNCHANGED Globals

\* image_bytes = await file.read(), and the size check (lines 44-47)
ReadBody ==
    /\ pc = "read"
    /\ UNCHANGED Aside
    /\ IF file.size > 10 * 1024 * 1024
       THEN pc' = "done" /\ response' = HTTPException(413)
       ELSE pc' = "cv" /\ UNCHANGED response
    /\ UNCHANGED <<file, Globals, api_key, raw, index, storage, detected_objects,
                   annotated_b64, recommendations, analysis, image_url,
                   attempts, calls>>

\* Step 1: cv_service.analyze_image in its try block (lines 50-59)
StepCV ==
    /\ pc = "cv"
    /\ UNCHANGED Aside
    /\ \E det \in DetectorAnswers(_model # None) :
        LET r       == CvAnalyzeImage(file, det)
            reached == file.size <= MAX_IMAGE_SIZE /\ file.decodable
        IN  /\ _model' = IF reached /\ det.kind # "load_error" THEN "loaded" ELSE _model
            /\ calls' = IF ~reached THEN calls
                        ELSE calls
                             \o (IF _model = None THEN <<"YOLO">> ELSE <<>>)
                             \o (IF det.kind = "load_error" THEN <<>> ELSE <<"detect">>)
            /\ CASE r.kind = "ok" ->
                      /\ detected_objects' = r.detected_objects
                      /\ annotated_b64' = r.annotated_b64
                      /\ pc' = "vector"
                      /\ UNCHANGED response
                 [] r.kind = "ValueError" ->
                      /\ response' = HTTPException(400)
                      /\ pc' = "done"
                      /\ UNCHANGED <<detected_objects, annotated_b64>>
                 [] OTHER ->
                      /\ response' = HTTPException(500)
                      /\ pc' = "done"
                      /\ UNCHANGED <<detected_objects, annotated_b64>>
            /\ raw' = IF reached THEN det ELSE raw
    /\ UNCHANGED <<file, _client, _embedder, _configured, api_key, index, storage,
                   recommendations, analysis, image_url, attempts>>

\* Step 2: vector_service.query_recommendations, outside any try block
\* (lines 62-64): an exception it raises leaves the handler, and the
\* server answers 500
StepVector ==
    /\ pc = "vector"
    /\ UNCHANGED Aside
    /\ LET labels == { detected_objects[k].label : k \in 1..Len(detected_objects) }
       IN  \E ix \in IF labels = {} THEN {NoIndex} ELSE IndexAnswers(_client, _embedder) :
            LET r == QueryRecommendations(labels, ix, _client, _embedder)
            IN  /\ index' = ix
                /\ calls' = calls \o r.calls
                /\ _client' = r.client
                /\ _embedder' = r.embedder
                /\ IF r.kind = "ok"
                   THEN /\ recommendations' = r.matches
                        /\ pc' = "genai"
                        /\ UNCHANGED response
                   ELSE /\ response' = HTTPException(500)
                        /\ pc' = "done"
                        /\ UNCHANGED recommendations
    /\ UNCHANGED <<file, _model, _configured, api_key, raw, storage,
                   detected_objects, annotated_b64, analysis, image_url, attempts>>

\* Step 3: generate_analysis up to its first await (lines 67-70 and
\* genai_service lines 115-129): without a key the fallback is returned;
\* with one, the library is configured once per process and the first
\* backend of the chain is asked
StepGenStart ==
    /\ pc = "genai"
    /\ UNCHANGED Aside
    /\ \E key \in ApiKeys :
        /\ api_key' = key
        /\ IF ~HasKey(key)
           THEN /\ analysis' = _fallback_analysis(detected_objects, recommendations,
                                   _infer_room_type(LabelsOf(detected_objects)))
                /\ pc' = "storage"
                /\ UNCHANGED <<_configured, calls>>
           ELSE /\ _configured' = TRUE
                /\ calls' = calls
                            \o (IF _configured THEN <<>> ELSE <<"configure">>)
                            \o <<_MODEL_CHAIN[1]>>
                /\ pc' = "await"
                /\ UNCHANGED analysis
    /\ UNCHANGED <<file, _model, _client, _embedder, raw, index, storage,
                   detected_objects, annotated_b64, recommendations, image_url,
                   response, attempts>>

\* One iteration of the loop over _MODEL_CHAIN (lines 124-143) at 1-based
\* position i, given what the backend did: what the try block came to and
\* what the except clause decided
Attempt(i, out) ==
    [i     |-> i,
     out   |-> out,
     r     |-> TryModel(out),
     after |-> AfterException(i, TryModel(out).msg)]

\* The iterations of the loop against each behaviour of the backends
Attempts(outs) == { Attempt(i, out) : i \in 1..Len(_MODEL_CHAIN), out \in outs }

PipelineAttempts == Attempts(PipelineOutcomes)
BackendAttempts  == Attempts(BackendOutcomes)

\* The backend asked last answers or raises: the rest of that iteration of
\* the loop (lines 129-143), then the next iteration up to its await, or
\* the fallback after the loop (lines 145-146)
BackendAnswers(tried) ==
    /\ pc = "await"
    /\ UNCHANGED Aside
    /\ \E t \in tried :
        /\ t.i = Len(attempts) + 1
        /\ attempts' = Append(attempts, [model |-> _MODEL_CHAIN[t.i], outcome |-> t.out])
        /\ IF t.r.kind = "return"
           THEN /\ analysis' = t.r.analysis
                /\ pc' = "storage"
                /\ UNCHANGED calls
           ELSE IF t.after = "next"
           THEN /\ calls' = Append(calls, _MODEL_CHAIN[t.i + 1])
                /\ pc' = "await"
                /\ UNCHANGED analysis
           ELSE /\ analysis' = _fallback_analysis(detected_objects, recommendations,
                                   _infer_room_type(LabelsOf(detected_objects)))
                /\ pc' = "storage"
                /\ UNCHANGED calls
    /\ UNCHANGED <<file, Globals, api_key, raw, index, storage, detected_objects,
                   annotated_b64, recommendations, image_url, response>>

\* The backend asked last never answers: generate_content_async is awaited
\* with no timeout, so the coroutine stays suspended at line 129
BackendNeverAnswers ==
    /\ pc = "await"
    /\ UNCHANGED Aside
    /\ pc' = "hung"
    /\ UNCHANGED <<file, Globals, api_key, raw, index, storage, detected_objects,
                   annotated_b64, recommendations, analysis, image_url, response,
                   attempts, calls>>

\* What the storage side may do: the two environment variables set or not,
\* and the call that raises, if any
StorageAnswers ==
    { [env |-> FALSE, fail |-> "none"] }
    \cup { [env |-> TRUE, fail |-> f] :
             f \in {"none", "create_client", "upload", "get_public_url", "insert"} }

\* The calls of step 4 on a storage side that never raises
StorageCallPlan == <<"create_client", "upload", "get_public_url", "insert">>

\* SaveToSupabase without the try blocks: a failing call raises out of it
SaveToSupabase_Raises(st) ==
    LET at == FirstCall(StorageCallPlan, st.fail)
    IN  [calls     |-> IF ~st.env THEN <<>>
                       ELSE IF at = 0 THEN StorageCallPlan
                       ELSE SubSeq(StorageCallPlan, 1, at),
         image_url |-> IF st.env /\ (at = 0 \/ at > 3) THEN "public_url" ELSE None,
         raised    |-> st.env /\ at # 0]

\* Step 4 (lines 72-100): _get_supabase(), which answers None when the
\* environment is not set or create_client raises, and the try block around
\* upload, get_public_url and insert, whose except clause logs and goes on.
\* The calls made, the image_url left, and whether an exception leaves
\* the step (never)
SaveToSupabase(st) ==
    LET at == FirstCall(StorageCallPlan, st.fail)
    IN  [calls     |-> IF ~st.env THEN <<>>
                       ELSE IF at = 0 THEN StorageCallPlan
                       ELSE SubSeq(StorageCallPlan, 1, at),
         image_url |-> IF st.env /\ (at = 0 \/ at > 3) THEN "public_url" ELSE None,
         raised    |-> FALSE]

\* Step 4 and the return (lines 72-108)
SaveAndReturn ==
    /\ pc = "storage"
    /\ UNCHANGED Aside
    /\ \E st \in StorageAnswers :
        LET saved == SaveToSupabase(st)
        IN  /\ storage' = st
            /\ calls' = calls \o saved.calls
            /\ image_url' = saved.image_url
            /\ response' = IF saved.raised THEN HTTPException(500)
                           ELSE AnalysisResponse(detected_objects, recommendations,
                                                 analysis, annotated_b64,
                                                 saved.image_url)
            /\ pc' = "done"
    /\ UNCHANGED <<file, Globals, api_key, raw, index, detected_objects,
                   annotated_b64, recommendations, analysis, attempts>>

Next ==
    \/ Receive
    \/ ReadBody
    \/ StepCV
    \/ StepVector
    \/ StepGenStart
    \/ BackendAnswers(PipelineAttempts)
    \/ BackendNeverAnswers
    \/ SaveAndReturn

Spec == Init /\ [][Next]_vars

\* The handler's own steps run whenever they can, and a backend that was
\* asked either answers or is known never to answer; nothing obliges a new
\* request to arrive
FairSpec ==
    /\ Spec
    /\ WF_vars(ReadBody)
    /\ WF_vars(StepCV)
    /\ WF_vars(StepVector)
    /\ WF_vars(StepGenStart)
    /\ WF_vars(BackendAnswers(PipelineAttempts) \/ BackendNeverAnswers)
    /\ WF_vars(SaveAndReturn)

----------------------------------------------------------------------------
(* generate_analysis on its own: one call of the coroutine, on every input *)
(* of the bounded sets below and against every behaviour of the backends.  *)
(* The call has returned when pc = "storage".                              *)

\* The detections generate_analysis may be handed: what the CV service
\* makes of up to MaxDet relevant boxes
DetectedInputs ==
    { [k \in 1..Len(bs) |-> DetectedObject(bs[k])] :
        bs \in { b \in BoxSeqs : \A k \in 1..Len(b) : Relevant(b[k].label) } }

\* The recommendations it may be handed: what the vector service makes of
\* an index of each size
RecommendationInputs ==
    { LET hits == IndexQuery(c, Min(N_RESULTS, c))
      IN  [k \in 1..Len(hits) |-> VectorMatch(hits[k])] : c \in IndexSizes }

GenInit ==
    /\ pc = "genai"
    /\ file = [content_type |-> ImagePng, size |-> MAX_IMAGE_SIZE, decodable |-> TRUE]
    /\ _model = "loaded"
    /\ _client \in {None, "loaded"}
    /\ _embedder = _client
    /\ _configured \in BOOLEAN
    /\ api_key = ""
    /\ raw = NoDetector
    /\ index = NoIndex
    /\ storage = NoStorage
    /\ detected_objects \in DetectedInputs
    /\ annotated_b64 = <<>>
    /\ recommendations \in RecommendationInputs
    /\ analysis = NoAnalysis
    /\ image_url = None
    /\ response = NoResponse
    /\ attempts = <<>>
    /\ calls = <<>>
    /\ call = NoCall
    /\ ret = NoRet
    /\ runs = NoRuns

GenNext ==
    \/ StepGenStart
    \/ BackendAnswers(BackendAttempts)
    \/ BackendNeverAnswers

GenSpec == GenInit /\ [][GenNext]_vars

\* generate_analysis runs when it can, and a backend that was asked either
\* answers or is known never to answer
FairGenSpec ==
    /\ GenSpec
    /\ WF_vars(StepGenStart)
    /\ WF_vars(BackendAnswers(BackendAttempts) \/ BackendNeverAnswers)

----------------------------------------------------------------------------
(* Properties of generate_analysis, checked under GenSpec and FairGenSpec  *)

\* The fallback for the inputs of the call at hand
Fallback ==
    _fallback_analysis(detected_objects, recommendations,
                       _infer_room_type(LabelsOf(detected_objects)))

\* The backends asked so far, in the order they were asked
BackendCalls == SelectSeq(calls, LAMBDA c : c # "configure")

\* A backend attempt that raised a quota or rate-limit error
QuotaRaised(out) == out.kind = "raise" /\ out.msg \in {Err429, ErrQuota}

\* A backend attempt that raised an error of another kind
OtherRaised(out) == out.kind = "raise" /\ out.msg \notin {Err429, ErrQuota}

\* The answers of the model that are no valid RoomAnalysis: a score of 0, 11
\* or 429, a priority of "urgent" or "HIGH", a number for the room type and
\* an object for the suggestions, a JSON list, and text that is no JSON
InvalidAnswers ==
    { Answers(t) : t \in { Plain("score0"), Plain("score11"), Plain("score429"),
                           Plain("urgent"), Plain("HIGH"), Plain("typed"),
                           <<"[", "]">>, <<"S","u","r","e","!">> } }

\* improvementScore within [1,10] and every priority one of the three
ScoreAndPrioritiesValid(a) ==
    /\ a.estimated_improvement_score >= 1
    /\ a.estimated_improvement_score <= 10
    /\ \A k \in 1..Len(a.improvement_suggestions) :
          a.improvement_suggestions[k].priority \in {"high", "medium", "low"}

\* C1: whatever the backends do, a hung attempt included, generate_analysis
\* eventually returns a schema-valid RoomAnalysis
C1_AlwaysReturnsValidAnalysis ==
    <>(pc = "storage" /\ ScoreAndPrioritiesValid(analysis))

\* C2: with a credential, while every attempt so far raised a quota error
\* the backends asked are a prefix of _MODEL_CHAIN, in order and one more
\* than the attempts that failed; the call returns only after the whole
\* chain was asked once, and then with the fallback
C2_QuotaTriesWholeChainInOrder ==
    (api_key # "" /\ \A k \in 1..Len(attempts) : QuotaRaised(attempts[k].outcome))
    => /\ BackendCalls = SubSeq(_MODEL_CHAIN, 1, Len(BackendCalls))
       /\ Len(BackendCalls) = Min(Len(attempts) + 1, Len(_MODEL_CHAIN))
       /\ (Len(attempts) = Len(_MODEL_CHAIN)) = (pc = "storage")
       /\ pc = "storage" => BackendCalls = _MODEL_CHAIN /\ analysis = Fallback

C2_Witness ==
    /\ pc = "storage"
    /\ api_key # ""
    /\ Len(attempts) = Len(_MODEL_CHAIN)
    /\ \A k \in 1..Len(attempts) : QuotaRaised(attempts[k].outcome)
    /\ analysis = Fallback

C4_NoKeyNoBackendCall ==
    (pc # "genai" /\ api_key = "")
    => /\ calls = <<>>
       /\ attempts = <<>>
       /\ pc = "storage"
       /\ analysis = Fallback

C4_Witness ==
    /\ pc = "storage"
    /\ api_key = ""
    /\ ~_configured
    /\ calls = <<>>
    /\ analysis = Fallback

\* C5: an attempt answered by text that is no valid RoomAnalysis ends as a
\* failed attempt does: either the next backend was asked, or the call
\* returned the fallback; what the invalid text held is never returned
C5_InvalidAnswerIsAFailure ==
    \A k \in 1..Len(attempts) :
        attempts[k].outcome \in InvalidAnswers
        => \/ /\ k < Len(_MODEL_CHAIN)
              /\ Len(BackendCalls) > k
              /\ BackendCalls[k + 1] = _MODEL_CHAIN[k + 1]
              /\ (k = Len(attempts) => pc \in {"await", "hung"})
           \/ /\ k = Len(attempts)
              /\ Len(BackendCalls) = k
              /\ pc = "storage"
              /\ analysis = Fallback

C5_Witness ==
    /\ Len(attempts) = 2
    /\ attempts[1].outcome = Answers(Plain("score429"))
    /\ attempts[2].outcome = Answers(Plain("score11"))
    /\ pc = "storage"
    /\ analysis = Fallback

\* C6: the RoomAnalysis generate_analysis returns, parsed or synthesized,
\* has its score within [1,10] and every priority among high, medium, low
C6_ReturnedScoreAndPriorityInBounds ==
    pc = "storage" => ScoreAndPrioritiesValid(analysis)

C6_Witness ==
    /\ pc = "storage"
    /\ Len(attempts) = 1
    /\ attempts[1].outcome = Answers(Plain("ok10str"))
    /\ analysis.estimated_improvement_score = 10
    /\ analysis # Fallback

----------------------------------------------------------------------------
(* Properties of the handler analyze_image, checked under Spec             *)

\* The vector store or the embedder raised during this run
RankerFailed == index.fail \notin {"none", "not_called"}

\* C7: a run in which the ranker raised still ends with an AnalysisResult,
\* built on an empty list of recommendations
C7_RankerFailureDegrades ==
    (pc = "done" /\ RankerFailed)
    => /\ response.status = 200
       /\ response.vector_recommendations = <<>>

\* Stage 1 failed or is bound to fail: the payload is over the ceiling, the
\* bytes do not decode, or the detector raised
DetectionFailed ==
    \/ file.size > MAX_IMAGE_SIZE
    \/ ~file.decodable
    \/ raw.kind \in {"load_error", "infer_error"}

\* C8: a run whose detection stage fails is aborted: it never reaches the
\* ranker, the coordinator or the storage side, calls none of them, and ends
\* with an error instead of an AnalysisResult
C8_DetectionFailureAborts ==
    DetectionFailed
    => /\ pc \in {"idle", "read", "cv", "done"}
       /\ \A k \in 1..Len(calls) : calls[k] \in {"YOLO", "detect"}
       /\ index = NoIndex
       /\ attempts = <<>>
       /\ analysis = NoAnalysis
       /\ storage = NoStorage
       /\ pc = "done" => response.status \in {400, 413, 500}

C8_Witness ==
    /\ pc = "done"
    /\ file.decodable
    /\ raw.kind = "infer_error"
    /\ calls = <<"detect">>
    /\ response = HTTPException(500)

\* C9: a run in which a storage call raised still ends with the
\* AnalysisResult made of the detections, recommendations, analysis and
\* annotated image that the run computed before the storage step
C9_StorageFailureNotFatal ==
    (pc = "done" /\ storage.fail \in {"create_client", "upload", "get_public_url", "insert"})
    => /\ response.status = 200
       /\ response.detected_objects = detected_objects
       /\ response.vector_recommendations = recommendations
       /\ response.analysis = analysis
       /\ response.annotated_image = annotated_b64
       /\ analysis # NoAnalysis

C9_Witness ==
    /\ pc = "done"
    /\ storage.fail = "upload"
    /\ response.status = 200
    /\ response.image_url = None
    /\ Len(response.detected_objects) = 2
    /\ Len(response.vector_recommendations) = 5
    /\ response.analysis.style_detected = "modern"

\* All the boxes of the detector's results, in emission order
RECURSIVE EmittedBoxes(_)
EmittedBoxes(results) ==
    IF results = <<>> THEN <<>>
    ELSE Head(results).boxes \o EmittedBoxes(Tail(results))

\* C10: the detections returned are the emitted boxes whose label is in
\* RELEVANT_LABELS, each once and in emission order
C10_FilterKeepsExactlyRelevant ==
    raw.kind = "results"
    => LET expected == SelectSeq(EmittedBoxes(raw.results),
                                 LAMBDA b : b.label \in RELEVANT_LABELS)
       IN  /\ Len(detected_objects) = Len(expected)
           /\ \A k \in 1..Len(expected) :
                 /\ detected_objects[k].label = expected[k].label
                 /\ detected_objects[k].confidence = Round(expected[k].conf, 10)
                 /\ detected_objects[k].label \in RELEVANT_LABELS

C10_Witness ==
    /\ raw.kind = "results"
    /\ LabelsOf(EmittedBoxes(raw.results)) = <<"potted plant", "person", "couch">>
    /\ LabelsOf(detected_objects) = <<"potted plant", "couch">>
    /\ pc = "vector"

----------------------------------------------------------------------------
(* The functions of the services called on their own: one call, on every  *)
(* argument of the bounded sets below. The call has returned when         *)
(* ret.done.                                                               *)

\* Longest list of labels _infer_room_type is called on
MaxLabels == 3

\* The labels the rules of _infer_room_type name, and one they do not
RuleLabels ==
    {"bed", "toilet", "refrigerator", "oven", "microwave", "sink",
     "couch", "tv", "dining table", "laptop", "chair", "clock"}

LabelLists == UNION { [1..n -> RuleLabels] : n \in 0..MaxLabels }

InferRoomTypeCalls == { [fn |-> "_infer_room_type", args |-> l] : l \in LabelLists }

\* The locals and globals of the pipeline, which a call on its own leaves alone
Pipeline ==
    <<file, Globals, api_key, raw, index, storage, detected_objects, annotated_b64,
      recommendations, analysis, image_url, response, attempts, calls, runs>>

\* _infer_room_type(objects) is called and returns
Call_infer_room_type ==
    /\ pc = "call"
    /\ call.fn = "_infer_room_type"
    /\ ret' = [done |-> TRUE, value |-> _infer_room_type(call.args)]
    /\ pc' = "returned"
    /\ UNCHANGED <<call, Pipeline>>

\* Largest n_results query_recommendations is called with
MaxN == 7

\* The label sets handed to query_recommendations
LabelSets == { {}, {"couch"}, {"couch", "tv"} }

QueryRecommendationsCalls ==
    { [fn |-> "query_recommendations",
       args |-> [labels |-> l, n_results |-> n, ix |-> ix, client |-> c, embedder |-> c]] :
        l \in LabelSets, n \in 1..MaxN, ix \in IndexAnswers(None, None),
        c \in {None, "loaded"} }

\* query_recommendations(labels, chroma_path, n_results) is called and
\* returns or raises
Call_query_recommendations ==
    /\ pc = "call"
    /\ call.fn = "query_recommendations"
    /\ ret' = [done |-> TRUE,
               value |-> QueryRecommendationsN(call.args.labels, call.args.n_results,
                             call.args.ix, call.args.client, call.args.embedder)]
    /\ pc' = "returned"
    /\ UNCHANGED <<call, Pipeline>>

\* The labels of the detections handed to _fallback_analysis, in lists of up
\* to MaxLabels
FallbackLabels == {"couch", "potted plant", "tv", "chair"}

FallbackDetections ==
    { [k \in 1..Len(l) |->
          DetectedObject([label |-> l[k], conf |-> 9123,
                          xyxy |-> <<1004, 1015, 20025, 20000>>])] :
        l \in UNION { [1..n -> FallbackLabels] : n \in 0..MaxLabels } }

RoomTypes == {"living room", "bedroom", "office"}

\* The recommendations handed to it: what the vector service makes of an
\* index of each size, for each n_results
FallbackRecommendations ==
    { LET hits == IndexQuery(c, Min(n, c))
      IN  [k \in 1..Len(hits) |-> VectorMatch(hits[k])] :
        c \in IndexSizes, n \in 1..MaxN }

FallbackAnalysisCalls ==
    { [fn |-> "_fallback_analysis",
       args |-> [detected_objects |-> d, recommendations |-> r, room_type |-> t]] :
        d \in FallbackDetections, r \in FallbackRecommendations, t \in RoomTypes }

\* _fallback_analysis(detected_objects, recommendations, room_type) is
\* called and returns
Call_fallback_analysis ==
    /\ pc = "call"
    /\ call.fn = "_fallback_analysis"
    /\ ret' = [done |-> TRUE,
               value |-> _fallback_analysis(call.args.detected_objects,
                             call.args.recommendations, call.args.room_type)]
    /\ pc' = "returned"
    /\ UNCHANGED <<call, Pipeline>>

\* A JSON object on one line, where Plain(b) breaks the line after "{"
OneLine(b) == <<"{", b, "}">>

JsonObjectTexts == { Plain(b) : b \in BodyNames } \cup { OneLine(b) : b \in BodyNames }

\* The ways a backend's answer may carry a JSON object text j: bare, between
\* code-fence markers, and with the language tag, with newlines, spaces or
\* nothing between the parts
Wrapped(w, j) ==
    CASE w = "bare"          -> j
      [] w = "spaces"        -> <<" ", "\n">> \o j \o <<"\n", " ">>
      [] w = "fence lines"   -> Fence \o <<"\n">> \o j \o <<"\n">> \o Fence
      [] w = "fence glued"   -> Fence \o j \o Fence
      [] w = "fence spaces"  -> Fence \o <<" ">> \o j \o <<" ">> \o Fence
      [] w = "tagged lines"  -> Fence \o JsonTag \o <<"\n">> \o j \o <<"\n">> \o Fence \o <<"\n">>
      [] w = "tagged spaces" -> Fence \o JsonTag \o <<" ">> \o j \o <<" ">> \o Fence

Wrappers ==
    {"bare", "spaces", "fence lines", "fence glued", "fence spaces",
     "tagged lines", "tagged spaces"}

\* `wraps` and `wrapper` remember what the text was made of
ParseGeminiResponseCalls ==
    { [fn |-> "_parse_gemini_response", args |-> Wrapped(w, j), wraps |-> j, wrapper |-> w] :
        w \in Wrappers, j \in JsonObjectTexts }

\* _parse_gemini_response(text) is called and returns or raises
Call_parse_gemini_response ==
    /\ pc = "call"
    /\ call.fn = "_parse_gemini_response"
    /\ ret' = [done |-> TRUE, value |-> _parse_gemini_response(call.args)]
    /\ pc' = "returned"
    /\ UNCHANGED <<call, Pipeline>>

UnitInit ==
    /\ pc = "call"
    /\ file = [content_type |-> <<>>, size |-> MAX_IMAGE_SIZE, decodable |-> FALSE]
    /\ _model = None
    /\ _client = None
    /\ _embedder = None
    /\ _configured = FALSE
    /\ api_key = ""
    /\ raw = NoDetector
    /\ index = NoIndex
    /\ storage = NoStorage
    /\ detected_objects = <<>>
    /\ annotated_b64 = <<>>
    /\ recommendations = <<>>
    /\ analysis = NoAnalysis
    /\ image_url = None
    /\ response = NoResponse
    /\ attempts = <<>>
    /\ calls = <<>>
    /\ \/ call \in InferRoomTypeCalls
       \/ call \in QueryRecommendationsCalls
       \/ call \in FallbackAnalysisCalls
       \/ call \in ParseGeminiResponseCalls
    /\ ret = NoRet
    /\ runs = NoRuns

UnitNext ==
    \/ Call_infer_room_type
    \/ Call_query_recommendations
    \/ Call_fallback_analysis
    \/ Call_parse_gemini_response

UnitSpec == UnitInit /\ [][UnitNext]_vars

----------------------------------------------------------------------------
(* The end-to-end scenario: steps 2 to 4 of analyze_image on the first     *)
(* request of a process, after step 1 detected a couch (0.91) and a tv     *)
(* (0.87).                                                                 *)

ScenarioBoxes ==
    << [label |-> "couch", conf |-> 9100, xyxy |-> <<1000, 1000, 20000, 20000>>],
       [label |-> "tv",    conf |-> 8700, xyxy |-> <<22000, 1000, 40000, 15000>>] >>

ScenarioFile == [content_type |-> ImagePng, size |-> MAX_IMAGE_SIZE, decodable |-> TRUE]

ScenarioDetector == [kind |-> "results", results |-> <<Result(ScenarioBoxes)>>]

\* The state in which step 1 leaves the handler
ScenarioInit ==
    /\ pc = "vector"
    /\ file = ScenarioFile
    /\ _model = "loaded"
    /\ _client = None
    /\ _embedder = None
    /\ _configured = FALSE
    /\ api_key = ""
    /\ raw = ScenarioDetector
    /\ index = NoIndex
    /\ storage = NoStorage
    /\ detected_objects = CvAnalyzeImage(ScenarioFile, ScenarioDetector).detected_objects
    /\ annotated_b64 = CvAnalyzeImage(ScenarioFile, ScenarioDetector).annotated_b64
    /\ recommendations = <<>>
    /\ analysis = NoAnalysis
    /\ image_url = None
    /\ response = NoResponse
    /\ attempts = <<>>
    /\ calls = <<"YOLO", "detect">>
    /\ call = NoCall
    /\ ret = NoRet
    /\ runs = NoRuns

ScenarioNext ==
    \/ StepVector
    \/ StepGenStart
    \/ BackendAnswers(PipelineAttempts)
    \/ BackendNeverAnswers
    \/ SaveAndReturn

ScenarioSpec == ScenarioInit /\ [][ScenarioNext]_vars

----------------------------------------------------------------------------
(* Concurrent runs of analyze_image in one process. The handler is a       *)
(* coroutine on the server's event loop: between two awaits it runs        *)
(* without interleaving. It awaits file.read() (line 44) and               *)
(* generate_analysis (line 68), which suspends at generate_content_async;  *)
(* steps 1 and 2 and the lazy getters they call run in one stretch.        *)

\* Number of concurrent runs
MaxRuns == 2

RunIds == 1..MaxRuns

\* What MODEL_PATH and CHROMA_DB_PATH may hold when a run reads them
ModelPaths  == {"yolov8n.pt", "yolov8s.pt"}
ChromaPaths == {"./chroma_store", "./other_store"}

EmbedderName == "all-MiniLM-L6-v2"

\* _get_model reloading when the path differs from the one loaded
_get_model_ReloadsOnNewPath(global, model_path) ==
    IF global = None \/ global # model_path THEN model_path ELSE global

\* _get_model(model_path): the handle it returns, given the global _model;
\* a handle is held as the path it was constructed from
_get_model(global, model_path) == IF global = None THEN model_path ELSE global

\* _get_client(path), given the global _client
_get_client(global, path) == IF global = None THEN path ELSE global

\* _get_embedder(), given the global _embedder
_get_embedder(global) == IF global = None THEN EmbedderName ELSE global

\* What the detector may do in a run: YOLO(model_path) raises, model(img)
\* raises, or it answers with no relevant box or with one
RunDetectorAnswers ==
    { [kind |-> "load_error", results |-> <<>>],
      [kind |-> "infer_error", results |-> <<>>],
      [kind |-> "results", results |-> <<Result(<<>>)>>],
      [kind |-> "results", results |-> <<Result(SubSeq(ScenarioBoxes, 1, 1))>>] }

NoFile == [content_type |-> <<>>, size |-> MAX_IMAGE_SIZE, decodable |-> FALSE]

\* The uploads of the concurrent runs: one the checks refuse for its type,
\* one for its size, one that does not decode, and one that is analysed
RunFiles ==
    { [content_type |-> TextPlain, size |-> MAX_IMAGE_SIZE, decodable |-> TRUE],
      [content_type |-> ImagePng, size |-> MAX_IMAGE_SIZE + 1, decodable |-> TRUE],
      [content_type |-> ImagePng, size |-> MAX_IMAGE_SIZE, decodable |-> FALSE],
      [content_type |-> ImagePng, size |-> MAX_IMAGE_SIZE, decodable |-> TRUE] }

\* What the vector store and the embedder may do in a run: an empty or a
\* populated index, and a constructor or the query raising
RunIndexAnswers(client, embedder) ==
    { ix \in IndexAnswers(client, embedder) :
        /\ ix.count \in {0, MaxIndex}
        /\ ix.fail \in {"none", "PersistentClient", "SentenceTransformer", "query"} }

ConcInit ==
    /\ pc = "serving"
    /\ file = NoFile
    /\ _model = None
    /\ _client = None
    /\ _embedder = None
    /\ _configured = FALSE
    /\ api_key = ""
    /\ raw = NoDetector
    /\ index = NoIndex
    /\ storage = NoStorage
    /\ detected_objects = <<>>
    /\ annotated_b64 = <<>>
    /\ recommendations = <<>>
    /\ analysis = NoAnalysis
    /\ image_url = None
    /\ response = NoResponse
    /\ attempts = <<>>
    /\ calls = <<>>
    /\ call = NoCall
    /\ ret = NoRet
    /\ runs = [r \in RunIds |->
                 [pc |-> "idle", file |-> NoFile, model_path |-> "", chroma_path |-> "",
                  status |-> 0]]

\* The locals of the single run of Spec, which concurrent runs leave alone
SingleRun ==
    <<pc, file, api_key, raw, index, storage, detected_objects, annotated_b64,
      recommendations, analysis, image_url, response, attempts, call, ret>>

\* A request arrives for run r: the content type check (lines 41-42), up
\* to `await file.read()`. The locals of a run end with it: a run that is
\* done keeps only the status it answered with
RunReceive(r) ==
    /\ runs[r].pc = "idle"
    /\ \E f \in RunFiles :
        LET refused == f.content_type = <<>>
                       \/ ~StartsWith(f.content_type, <<"i","m","a","g","e","/">>)
        IN  runs' = [runs EXCEPT ![r].file = IF refused THEN NoFile ELSE f,
                                 ![r].pc = IF refused THEN "done" ELSE "read",
                                 ![r].status = IF refused THEN 400 ELSE 0]
    /\ UNCHANGED <<SingleRun, Globals, calls>>

\* The constructor whose call ended `made` raised: what the log keeps of it
Raised(made) ==
    IF made = <<>> THEN <<>>
    ELSE IF made[Len(made)] = "PersistentClient" THEN <<"PersistentClient raised">>
    ELSE IF made[Len(made)] = "SentenceTransformer" THEN <<"SentenceTransformer raised">>
    ELSE <<>>

\* file.read() has answered for run r: lines 46-70 up to the first await
\* of generate_analysis, or to the end of the handler when nothing is
\* awaited (an error response, or no credential)
RunPipeline(r) ==
    /\ runs[r].pc = "read"
    /\ \E mp \in ModelPaths, cp \in ChromaPaths, det \in RunDetectorAnswers, key \in ApiKeys :
        LET f        == runs[r].file
            too_big  == f.size > 10 * 1024 * 1024
            reached  == ~too_big /\ f.size <= MAX_IMAGE_SIZE /\ f.decodable
            handle   == _get_model(_model, mp)
            loads    == reached /\ handle # _model
            cv       == CvAnalyzeImage(f, det)
            ran_cv   == ~too_big /\ cv.kind = "ok"
            labels   == IF ran_cv
                        THEN { cv.detected_objects[k].label : k \in 1..Len(cv.detected_objects) }
                        ELSE {}
        IN  /\ det.kind = "load_error" => loads
            /\ \E ix \in IF labels # {} THEN RunIndexAnswers(_client, _embedder) ELSE {NoIndex} :
                LET q == IF ran_cv
                         THEN QueryRecommendations(labels, ix, _client, _embedder)
                         ELSE [kind |-> "not_called", matches |-> <<>>, calls |-> <<>>,
                               client |-> _client, embedder |-> _embedder]
                IN  /\ _model' = IF reached /\ det.kind # "load_error" THEN handle ELSE _model
                    /\ _client' = IF q.client # _client THEN _get_client(_client, cp)
                                  ELSE _client
                    /\ _embedder' = IF q.embedder # _embedder THEN _get_embedder(_embedder)
                                    ELSE _embedder
                    /\ calls' = calls
                                \o (IF loads THEN <<"YOLO">> ELSE <<>>)
                                \o (IF loads /\ det.kind = "load_error" THEN <<"YOLO raised">>
                                    ELSE <<>>)
                                \o (IF reached /\ det.kind # "load_error" THEN <<"detect">>
                                    ELSE <<>>)
                                \o q.calls
                                \o (IF q.kind = "raise" THEN Raised(q.calls) ELSE <<>>)
                    /\ _configured' = (_configured \/ (q.kind = "ok" /\ HasKey(key)))
                    /\ runs' = [runs EXCEPT
                          ![r].file = IF q.kind = "ok" /\ HasKey(key) THEN f ELSE NoFile,
                          ![r].model_path = IF q.kind = "ok" /\ HasKey(key) THEN mp ELSE "",
                          ![r].chroma_path = IF q.kind = "ok" /\ HasKey(key) THEN cp ELSE "",
                          ![r].pc = IF q.kind = "ok" /\ HasKey(key) THEN "await" ELSE "done",
                          ![r].status = IF too_big THEN 413
                                        ELSE IF cv.kind = "ValueError" THEN 400
                                        ELSE IF cv.kind # "ok" \/ q.kind # "ok" THEN 500
                                        ELSE IF HasKey(key) THEN 0
                                        ELSE 200]
    /\ UNCHANGED SingleRun

\* The backends have settled for run r: the rest of generate_analysis and
\* step 4, none of which touches the handles
RunFinish(r) ==
    /\ runs[r].pc = "await"
    /\ runs' = [runs EXCEPT ![r] = [pc |-> "done", file |-> NoFile, model_path |-> "",
                                    chroma_path |-> "", status |-> 200]]
    /\ UNCHANGED <<SingleRun, Globals, calls>>

ConcNext ==
    \E r \in RunIds :
        \/ RunReceive(r)
        \/ RunPipeline(r)
        \/ RunFinish(r)

ConcSpec == ConcInit /\ [][ConcNext]_vars

----------------------------------------------------------------------------
(* Properties of the functions called on their own, checked under UnitSpec *)

SetOf(l) == { l[k] : k \in 1..Len(l) }

\* The ordered rules of the room classifier as the specification lists
\* them: a rule matches a label set that meets `any` and misses `without`
RoomRules ==
    << [any |-> {"bed"},                              without |-> {},         room |-> "bedroom"],
       [any |-> {"toilet"},                           without |-> {},         room |-> "bathroom"],
       [any |-> {"refrigerator", "oven", "microwave"}, without |-> {},        room |-> "kitchen"],
       [any |-> {"sink"},                             without |-> {"toilet"}, room |-> "kitchen"],
       [any |-> {"couch", "tv"},                      without |-> {},         room |-> "living room"],
       [any |-> {"dining table"},                     without |-> {},         room |-> "dining room"],
       [any |-> {"laptop", "chair"},                  without |-> {},         room |-> "office"] >>

RuleMatches(k, S) == S \cap RoomRules[k].any # {} /\ S \cap RoomRules[k].without = {}

FirstMatch(S) ==
    IF \E k \in 1..Len(RoomRules) : RuleMatches(k, S)
    THEN RoomRules[CHOOSE k \in 1..Len(RoomRules) :
                      RuleMatches(k, S) /\ \A j \in 1..(k - 1) : ~RuleMatches(j, S)].room
    ELSE "living room"

\* C11: on every list of labels the room classifier answers with the room
\* of the first rule of the ordered list that matches the set of labels,
\* and with "living room" when none does; {bed, couch} is a bedroom, {sink}
\* a kitchen, {sink, toilet} a bathroom and {} a living room
C11_FirstMatchingRuleWins ==
    (call.fn = "_infer_room_type" /\ ret.done)
    => LET S == SetOf(call.args)
       IN  /\ ret.value = FirstMatch(S)
           /\ (S = {"bed", "couch"} => ret.value = "bedroom")
           /\ (S = {"sink"} => ret.value = "kitchen")
           /\ (S = {"sink", "toilet"} => ret.value = "bathroom")
           /\ (S = {} => ret.value = "living room")

C11_Witness ==
    /\ call.fn = "_infer_room_type"
    /\ ret.done
    /\ call.args = <<"sink", "toilet", "sink">>
    /\ ret.value = "bathroom"

\* C12: on a non-empty label set and a populated index that answers,
\* query_recommendations returns at most min(n_results, index size)
\* matches, by non-increasing similarity_score, each score within [0, 1]
C12_RankedByBoundedSimilarity ==
    (/\ call.fn = "query_recommendations"
     /\ ret.done
     /\ call.args.labels # {}
     /\ call.args.ix.count > 0
     /\ ret.value.kind = "ok")
    => LET m == ret.value.matches
       IN  /\ Len(m) <= Min(call.args.n_results, call.args.ix.count)
           /\ \A k \in 1..(Len(m) - 1) :
                 m[k].similarity_score >= m[k + 1].similarity_score
           /\ \A k \in 1..Len(m) :
                 m[k].similarity_score >= 0 /\ m[k].similarity_score <= 10000

C12_Witness ==
    /\ call.fn = "query_recommendations"
    /\ ret.done
    /\ call.args.labels = {"couch", "tv"}
    /\ call.args.n_results = MaxN
    /\ call.args.ix.count = MaxIndex
    /\ ret.value.kind = "ok"
    /\ Len(ret.value.matches) = MaxIndex
    /\ ret.value.matches[1].similarity_score = 8140
    /\ ret.value.matches[MaxIndex].similarity_score = 0

\* C13: on an empty label set query_recommendations returns the empty list
\* and makes no call: no client, no collection, no count, no embedder, no
\* query, whatever the index and the embedder would have done
C13_NoLabelsNoCalls ==
    (call.fn = "query_recommendations" /\ ret.done /\ call.args.labels = {})
    => /\ ret.value.kind = "ok"
       /\ ret.value.matches = <<>>
       /\ ret.value.calls = <<>>
       /\ ret.value.client = call.args.client
       /\ ret.value.embedder = call.args.embedder

C13_Witness ==
    /\ call.fn = "query_recommendations"
    /\ ret.done
    /\ call.args.labels = {}
    /\ call.args.client = None
    /\ call.args.ix = [count |-> MaxIndex, fail |-> "PersistentClient"]
    /\ ret.value.matches = <<>>

SuggestionKinds(a) ==
    [k \in 1..Len(a.improvement_suggestions) |->
        [area     |-> a.improvement_suggestions[k].area,
         priority |-> a.improvement_suggestions[k].priority]]

\* C14: the fallback returns the room type it was given, style
\* "undetermined", score 5, a palette of 3 colours, nothing to remove, the
\* names of the first 3 recommendations in order, a General/medium
\* suggestion exactly when fewer than 3 distinct labels were detected, a
\* Greenery/low suggestion exactly when no potted plant was, and no other
\* suggestion; what it returns is valid for the schema
C14_FallbackIsDeterminedByItsInputs ==
    (call.fn = "_fallback_analysis" /\ ret.done)
    => LET a        == ret.value
           L        == { call.args.detected_objects[k].label :
                           k \in 1..Len(call.args.detected_objects) }
           recs     == call.args.recommendations
           kinds    == SuggestionKinds(a)
           general  == [area |-> "General", priority |-> "medium"]
           greenery == [area |-> "Greenery", priority |-> "low"]
       IN  /\ a.room_type = call.args.room_type
           /\ a.style_detected = "undetermined"
           /\ a.estimated_improvement_score = 5
           /\ Len(a.color_palette_recommendation) = 3
           /\ a.furniture_to_remove = <<>>
           /\ Len(a.furniture_to_add) = Min(3, Len(recs))
           /\ \A k \in 1..Len(a.furniture_to_add) : a.furniture_to_add[k] = recs[k].name
           /\ (\E k \in 1..Len(kinds) : kinds[k] = general) <=> Cardinality(L) < 3
           /\ (\E k \in 1..Len(kinds) : kinds[k] = greenery) <=> "potted plant" \notin L
           /\ \A k \in 1..Len(kinds) : kinds[k] \in {general, greenery}
           /\ \A j, k \in 1..Len(kinds) : kinds[j] = kinds[k] => j = k
           /\ ScoreAndPrioritiesValid(a)

C14_Witness ==
    /\ call.fn = "_fallback_analysis"
    /\ ret.done
    /\ LabelsOf(call.args.detected_objects) = <<"tv", "potted plant", "chair">>
    /\ Len(call.args.recommendations) = 5
    /\ ret.value.improvement_suggestions = <<>>
    /\ Len(ret.value.furniture_to_add) = 3

\* C17: _parse_gemini_response gives, for a JSON object text bare, between
\* code-fence markers, or between them after the language tag, with
\* newlines, spaces or nothing between the parts, the object that
\* json.loads gives for the JSON object text itself
C17_RepairRoundTrip ==
    (call.fn = "_parse_gemini_response" /\ ret.done)
    => /\ ret.value.ok
       /\ ret.value.value = JsonLoads(call.wraps).value

----------------------------------------------------------------------------
(* Properties of the end-to-end scenario, checked under ScenarioSpec       *)

\* The scenario's case: the catalogue index is empty and answers, and no
\* credential is configured; steps 2 and 3 are over
ScenarioCase ==
    /\ pc \in {"storage", "done"}
    /\ index = [count |-> 0, fail |-> "none"]
    /\ api_key = ""

\* What the scenario yields apart from the suggestions
ScenarioYield ==
    /\ LabelsOf(detected_objects) = <<"couch", "tv">>
    /\ recommendations = <<>>
    /\ _infer_room_type(LabelsOf(detected_objects)) = "living room"
    /\ attempts = <<>>
    /\ analysis.room_type = "living room"
    /\ analysis.estimated_improvement_score = 5
    /\ pc = "done" => response.status = 200 /\ response.analysis = analysis
                                            /\ response.vector_recommendations = <<>>

\* C15 as amended: with a couch and a tv detected, an empty index and no
\* credential, the pipeline yields no recommendations, room type "living
\* room", and the fallback analysis with roomType "living room", score 5
\* and two suggestions: General/medium (two distinct labels, fewer than 3),
\* then Greenery/low
C15_ScenarioYieldsSparseAndGreenery ==
    ScenarioCase
    => /\ ScenarioYield
       /\ SuggestionKinds(analysis) = << [area |-> "General", priority |-> "medium"],
                                         [area |-> "Greenery", priority |-> "low"] >>

C15_Witness ==
    /\ ScenarioCase
    /\ pc = "done"
    /\ response.status = 200
    /\ Len(response.analysis.improvement_suggestions) = 2
    /\ calls = <<"YOLO", "detect", "PersistentClient", "get_or_create_collection", "count">>

\* C15 as claimed: in that scenario the suggestions of the fallback
\* analysis are one Greenery suggestion and nothing else
C15_ScenarioYieldsOnlyGreenery ==
    ScenarioCase
    => /\ ScenarioYield
       /\ SuggestionKinds(analysis) = << [area |-> "Greenery", priority |-> "low"] >>

----------------------------------------------------------------------------
(* The except clause of generate_analysis, checked under GenSpec           *)

QuotaWord == << {"q", "Q"}, {"u", "U"}, {"o", "O"}, {"t", "T"}, {"a", "A"} >>

\* "429" somewhere in a message, or "quota" in any mix of upper and lower case
MentionsQuota(msg) ==
    \/ \E k \in 1..(Len(msg) - 2) : msg[k] = "4" /\ msg[k + 1] = "2" /\ msg[k + 2] = "9"
    \/ \E k \in 1..(Len(msg) - 4) : \A j \in 1..5 : msg[k + j - 1] \in QuotaWord[j]

----------------------------------------------------------------------------
(* Properties of concurrent runs, checked under ConcSpec                   *)

CountIn(log, name) == Len(SelectSeq(log, LAMBDA c : c = name))

\* The constructions of `ctor` in the log that did not raise
Built(log, ctor, raised) == CountIn(log, ctor) - CountIn(log, raised)

\* Once the handle exists, a step leaves it as it is and calls no constructor
Reused(handle, handle_next, ctor) ==
    handle # None
    => /\ handle_next = handle
       /\ CountIn(calls', ctor) = CountIn(calls, ctor)

\* C18: however the runs interleave, the detector, the index client and
\* the embedder are each constructed at most once; a handle that exists is
\* never replaced and its constructor is never called again, whatever
\* model path or store path a later run reads
C18_HandlesConstructedOnceAndReused ==
    [][ /\ Reused(_model, _model', "YOLO")
        /\ Reused(_client, _client', "PersistentClient")
        /\ Reused(_embedder, _embedder', "SentenceTransformer")
        /\ Built(calls', "YOLO", "YOLO raised") = (IF _model' = None THEN 0 ELSE 1)
        /\ Built(calls', "PersistentClient", "PersistentClient raised")
              = (IF _client' = None THEN 0 ELSE 1)
        /\ Built(calls', "SentenceTransformer", "SentenceTransformer raised")
              = (IF _embedder' = None THEN 0 ELSE 1) ]_vars

C18_Witness ==
    \E a, b \in RunIds :
        /\ runs[b].pc = "done" /\ runs[b].status = 200
        /\ runs[a].pc = "await"
        /\ _model # None /\ runs[a].model_path # _model
        /\ _client # None /\ runs[a].chroma_path # _client
        /\ _embedder = EmbedderName
        /\ CountIn(calls, "YOLO") = 1
        /\ CountIn(calls, "PersistentClient") = 1
        /\ CountIn(calls, "SentenceTransformer") = 1
        /\ CountIn(calls, "detect") = 2
        /\ CountIn(calls, "query") = 2

=============================================================================
